---- MODULE Spec2Model ----
(***************************************************************************)
(* textshell: a pipeline of line transforms (sort, uniq, help) typed into  *)
(* an input box and applied to the selected lines of the active editor.    *)
(*                                                                         *)
(* Representation.                                                         *)
(*  - A line is the sequence of its characters (one-character strings),    *)
(*    so that the collator and the property-key rules of a JavaScript      *)
(*    object can look inside it.                                           *)
(*  - A pipeline text is the sequence of its lexemes: " " stands for a     *)
(*    maximal run of whitespace, "|" for one pipe character, and any other *)
(*    string for a maximal run of other characters (a word).               *)
(*  - null is the empty sequence and a non-null value v is <<v>>.          *)
(*  - An Error is its message, a sequence of the pieces concatenated.      *)
(***************************************************************************)
EXTENDS Integers, Sequences, FiniteSets, TLC

VARIABLES
    pc,         \* position of the process the specification runs
    text,       \* the pipeline text (input box value / parsePipeline's text)
    lines,      \* the line sequence handed to a stage or pipeline
    pipeName,   \* the name of the factory called directly
    args,       \* the argument tokens handed to a factory
    built,      \* what the factory call produced: [pipe, error]
    validated,  \* result of parsePipeline(text, {check: true}), or null
    parsed,     \* result of parsePipeline(text), or null
    out,        \* outcome of applying a Pipe: [threw, lines], or null
    helpShown,  \* number of showTextDocument calls made by help stages
    hasEditor,  \* vscode.window.activeTextEditor is defined
    edits,      \* the replace edits issued on the editor, in order
    errorsShown,\* messages passed to showErrorMessage, in order
    warning     \* what validateInput last returned: null or a message

vars == <<pc, text, lines, pipeName, args, built, validated, parsed, out, helpShown,
          hasEditor, edits, errorsShown, warning>>

Null == <<>>
Some(v) == <<v>>

(***************************************************************************)
(* Bounds                                                                  *)
(***************************************************************************)
MaxLines == 3
MaxArgs == 2
MaxLexemes == 5
MaxDocLines == 3

\* All sequences over S of length at most n.
SeqsUpTo(S, n) == UNION {[1..k -> S] : k \in 0..n}

(***************************************************************************)
(* Lines                                                                   *)
(***************************************************************************)
LineA == <<"a">>
LineB == <<"b">>
Line2 == <<"2">>
Line10 == <<"1", "0">>
LineItem1 == <<"i", "t", "e", "m", "1">>
LineItem2 == <<"i", "t", "e", "m", "2">>
LineItem10 == <<"i", "t", "e", "m", "1", "0">>
LineProto == <<"_", "_", "p", "r", "o", "t", "o", "_", "_">>

LineUniverse ==
    {LineA, LineB, Line2, Line10, LineItem1, LineItem2, LineItem10}

LineSeqs == SeqsUpTo(LineUniverse, MaxLines)

Digits == <<"0", "1", "2", "3", "4", "5", "6", "7", "8", "9">>
IsDigit(c) == \E i \in 1..Len(Digits) : Digits[i] = c
DigitVal(c) == (CHOOSE i \in 1..Len(Digits) : Digits[i] = c) - 1

\* Collation order of the characters used: punctuation, digits, letters.
CollationOrder ==
    <<"_", "0", "1", "2", "3", "4", "5", "6", "7", "8", "9",
      "a", "b", "e", "i", "m", "o", "p", "r", "t">>
Rank(c) == CHOOSE i \in 1..Len(CollationOrder) : CollationOrder[i] = c

Tail0(s, n) == SubSeq(s, n + 1, Len(s))

RECURSIVE DigitRunLen(_)
DigitRunLen(s) ==
    IF s = <<>> \/ ~IsDigit(Head(s)) THEN 0 ELSE 1 + DigitRunLen(Tail(s))

RECURSIVE NumValue(_, _)
NumValue(s, acc) ==
    IF s = <<>> THEN acc ELSE NumValue(Tail(s), 10 * acc + DigitVal(Head(s)))

Sign(n) == IF n < 0 THEN -1 ELSE IF n > 0 THEN 1 ELSE 0

\* Intl.Collator(undefined, {numeric: true, usage: 'sort'}).compare:
\* digit runs compare by numeric value, other characters by collation rank,
\* a proper prefix sorts first.
RECURSIVE collatorCompare(_, _)
collatorCompare(a, b) ==
    IF a = <<>> /\ b = <<>> THEN 0
    ELSE IF a = <<>> THEN -1
    ELSE IF b = <<>> THEN 1
    ELSE IF IsDigit(Head(a)) /\ IsDigit(Head(b)) THEN
        LET na == DigitRunLen(a)
            nb == DigitRunLen(b)
            va == NumValue(SubSeq(a, 1, na), 0)
            vb == NumValue(SubSeq(b, 1, nb), 0)
        IN  IF va # vb THEN Sign(va - vb)
            ELSE collatorCompare(Tail0(a, na), Tail0(b, nb))
    ELSE IF Rank(Head(a)) # Rank(Head(b)) THEN Sign(Rank(Head(a)) - Rank(Head(b)))
    ELSE collatorCompare(Tail(a), Tail(b))

\* comparator without the negation for "-d" and "desc".
comparatorAscendingOnly(desc, a, b) == collatorCompare(a, b)

\* The comparator sort chooses: collator.compare, or its negation.
comparator(desc, a, b) ==
    IF desc THEN 0 - collatorCompare(a, b) ELSE collatorCompare(a, b)

\* Array.prototype.toSorted: a stable sort into a copy. x goes before the
\* first element it is strictly less than.
RECURSIVE InsertSorted(_, _, _)
InsertSorted(desc, x, s) ==
    IF s = <<>> THEN <<x>>
    ELSE IF comparator(desc, x, Head(s)) < 0 THEN <<x>> \o s
    ELSE <<Head(s)>> \o InsertSorted(desc, x, Tail(s))

RECURSIVE toSortedFrom(_, _, _)
toSortedFrom(desc, s, acc) ==
    IF s = <<>> THEN acc
    ELSE toSortedFrom(desc, Tail(s), InsertSorted(desc, Head(s), acc))

toSorted(desc, s) == toSortedFrom(desc, s, <<>>)

(***************************************************************************)
(* A plain JavaScript object used as a set of keys (uniq's accumulator).   *)
(* ints: its integer-index keys; strs: its other keys in insertion order.  *)
(***************************************************************************)
EmptyObject == [ints |-> {}, strs |-> <<>>]

\* A canonical array index: the decimal form, without leading zeros, of an
\* integer below 2^32 - 1. Keys of up to nine digits are all below it; longer
\* digit strings do not occur among the lines modelled.
IsArrayIndex(key) ==
    /\ key # <<>>
    /\ Len(key) <= 9
    /\ \A i \in 1..Len(key) : IsDigit(key[i])
    /\ (Len(key) > 1 => key[1] # "0")

InSeq(x, s) == \E i \in 1..Len(s) : s[i] = x

\* acc[line] = true. Object.prototype's __proto__ setter ignores a value
\* that is neither an object nor null, so no property is created for it.
ObjectSet(acc, key) ==
    IF key = LineProto THEN acc
    ELSE IF IsArrayIndex(key) THEN [acc EXCEPT !.ints = @ \cup {key}]
    ELSE IF InSeq(key, acc.strs) THEN acc
    ELSE [acc EXCEPT !.strs = Append(@, key)]

RECURSIVE AscendingKeys(_)
AscendingKeys(S) ==
    IF S = {} THEN <<>>
    ELSE LET m == CHOOSE k \in S :
                    \A o \in S : NumValue(k, 0) <= NumValue(o, 0)
         IN  <<m>> \o AscendingKeys(S \ {m})

\* Object.keys: integer-index keys in ascending numeric order, then the
\* string keys in the order they were created.
ObjectKeys(obj) == AscendingKeys(obj.ints) \o obj.strs

RECURSIVE reduceUniques(_, _)
reduceUniques(s, acc) ==
    IF s = <<>> THEN acc ELSE reduceUniques(Tail(s), ObjectSet(acc, Head(s)))

uniqLines(ls) == ObjectKeys(reduceUniques(ls, EmptyObject))

(***************************************************************************)
(* Pipes and factories                                                     *)
(***************************************************************************)
InvalidArguments == <<"Invalid arguments">>

\* A factory call either returns a value or throws.
Returned(p) == [pipe |-> Some(p), error |-> Null]
Threw(msg) == [pipe |-> Null, error |-> Some(msg)]

\* sort falling back to ascending order for arguments it does not know.
sortLenient(a) ==
    IF a = <<"-d">> \/ a = <<"desc">>
    THEN Returned([fn |-> "sort", desc |-> TRUE])
    ELSE Returned([fn |-> "sort", desc |-> FALSE])

sort(a) ==
    IF a = <<>> \/ a = <<"asc">> THEN Returned([fn |-> "sort", desc |-> FALSE])
    ELSE IF a = <<"-d">> \/ a = <<"desc">>
        THEN Returned([fn |-> "sort", desc |-> TRUE])
    ELSE Threw(InvalidArguments)

uniq(a) ==
    IF Len(a) > 0 THEN Threw(InvalidArguments)
    ELSE Returned([fn |-> "uniq", desc |-> FALSE])

help(a) == Returned([fn |-> "help", desc |-> FALSE])

\* Calling a value as a Pipe on the line sequence ls, with h help documents
\* shown so far. A value that is not a function throws a TypeError.
IsCallable(p) == p.fn \in {"sort", "uniq", "help"}

CallPipe(p, ls, h) ==
    IF p.fn = "sort" THEN [threw |-> FALSE, lines |-> toSorted(p.desc, ls), helps |-> h]
    ELSE IF p.fn = "uniq" THEN [threw |-> FALSE, lines |-> uniqLines(ls), helps |-> h]
    ELSE IF p.fn = "help" THEN [threw |-> FALSE, lines |-> ls, helps |-> h + 1]
    ELSE [threw |-> TRUE, lines |-> <<>>, helps |-> h]

NOOP == [fn |-> "NOOP", desc |-> FALSE, pipes |-> <<>>]

\* The fold taken from the right: the last pipe is applied first.
RECURSIVE reducePipesRight(_, _)
reducePipesRight(ps, acc) ==
    IF ps = <<>> \/ acc.threw THEN acc
    ELSE reducePipesRight(SubSeq(ps, 1, Len(ps) - 1),
                          CallPipe(ps[Len(ps)], acc.lines, acc.helps))

\* pipes.reduce((inp, pipe) => pipe(inp), lines): a throw ends the fold.
RECURSIVE reducePipes(_, _)
reducePipes(ps, acc) ==
    IF ps = <<>> \/ acc.threw THEN acc
    ELSE reducePipes(Tail(ps), CallPipe(Head(ps), acc.lines, acc.helps))

\* Calling the Pipe parsePipeline returned: NOOP, or the pipeline closure.
CallPipeline(p, ls, h) ==
    IF p.fn = "NOOP" THEN [threw |-> FALSE, lines |-> ls, helps |-> h]
    ELSE reducePipes(p.pipes, [threw |-> FALSE, lines |-> ls, helps |-> h])

(***************************************************************************)
(* Pipeline texts                                                          *)
(***************************************************************************)
Words ==
    {"sort", "uniq", "help", "asc", "desc", "-d", "-x",
     "frobnicate", "Sort", "toString", "__proto__"}
ArgWords == {"asc", "desc", "-d", "-x"}
Lexemes == Words \cup {" ", "|"}

IsWord(x) == x # " " /\ x # "|"

\* Lexemes are maximal runs: no two words and no two whitespace runs touch.
WellFormed(t) ==
    \A i \in 1..(Len(t) - 1) :
        /\ ~(IsWord(t[i]) /\ IsWord(t[i + 1]))
        /\ ~(t[i] = " " /\ t[i + 1] = " ")

\* The well-formed texts of at most n lexemes, each grown from a shorter one.
RECURSIVE TextsUpTo(_)
TextsUpTo(n) ==
    IF n = 0 THEN {<<>>}
    ELSE TextsUpTo(n - 1)
         \cup {t \in {Append(u, x) : u \in TextsUpTo(n - 1), x \in Lexemes} :
                 WellFormed(t)}

Texts == TextsUpTo(MaxLexemes)
ArgSeqs == SeqsUpTo(ArgWords, MaxArgs)

\* text.split('|'): the pieces between pipe characters; "" gives [""].
RECURSIVE splitPipe(_, _)
splitPipe(t, cur) ==
    IF t = <<>> THEN <<cur>>
    ELSE IF Head(t) = "|" THEN <<cur>> \o splitPipe(Tail(t), <<>>)
    ELSE splitPipe(Tail(t), Append(cur, Head(t)))

RECURSIVE trimStart(_)
trimStart(s) ==
    IF s # <<>> /\ Head(s) = " " THEN trimStart(Tail(s)) ELSE s

RECURSIVE trimEnd(_)
trimEnd(s) ==
    IF s # <<>> /\ s[Len(s)] = " " THEN trimEnd(SubSeq(s, 1, Len(s) - 1)) ELSE s

trim(s) == trimEnd(trimStart(s))

\* split(/\s+/) of a trimmed piece: its words; the empty string gives [""].
splitWhitespace(s) ==
    IF s = <<>> THEN <<"">> ELSE SelectSeq(s, IsWord)

(***************************************************************************)
(* The registry                                                            *)
(***************************************************************************)
\* PIPES[pipeName] on the object literal {help, sort, uniq}: an own
\* property, or a property inherited from Object.prototype, or undefined.
OwnKeys == {"help", "sort", "uniq"}
InheritedFunctions == {"toString", "constructor", "valueOf"}
PIPES(name) ==
    IF name \in OwnKeys THEN name
    ELSE IF name \in InheritedFunctions THEN name
    ELSE IF name = "__proto__" THEN "Object.prototype"
    ELSE "undefined"

UnknownCommand(name) == <<"Unknown command: ", name>>
NotAFunction == <<"factory is not a function">>
CannotConvert == <<"Cannot convert undefined or null to object">>

\* factory(args) for the value the lookup gave (this is undefined).
callFactory(factory, a) ==
    IF factory = "sort" THEN sort(a)
    ELSE IF factory = "uniq" THEN uniq(a)
    ELSE IF factory = "help" THEN help(a)
    ELSE IF factory = "toString"
        THEN Returned([fn |-> "[object Undefined]", desc |-> FALSE])
    ELSE IF factory = "constructor"
        THEN Returned([fn |-> "array", desc |-> FALSE])
    ELSE IF factory = "valueOf" THEN Threw(CannotConvert)
    ELSE Threw(NotAFunction)

\* What one parsePipe call did: the factory's outcome r, with the name looked
\* up and whether a factory was invoked.
parsePipeResult(r, name, called) ==
    [pipe |-> r.pipe, error |-> r.error, name |-> name, called |-> called]

parsePipeNamed(name, a) ==
    IF PIPES(name) = "undefined"
    THEN parsePipeResult(Threw(UnknownCommand(name)), name, FALSE)
    ELSE parsePipeResult(callFactory(PIPES(name), a), name, TRUE)

parsePipeTokens(tokens) == parsePipeNamed(Head(tokens), Tail(tokens))

parsePipe(piece) == parsePipeTokens(splitWhitespace(trim(piece)))

\* .map(parsePipe) inside try/catch: pieces are parsed left to right and the
\* first throw ends the map. looked and called record, for each parsePipe
\* call made, the name looked up and whether a factory was invoked.
RECURSIVE mapParsePipe(_, _)
\* The map going on after a failure: the last error is the one kept.
mapParsePipeStepContinuing(r, rest, acc) ==
    mapParsePipe(rest,
                 [pipes |-> IF r.error # Null THEN acc.pipes
                            ELSE Append(acc.pipes, r.pipe[1]),
                  error |-> IF r.error # Null THEN r.error ELSE acc.error,
                  looked |-> Append(acc.looked, r.name),
                  called |-> Append(acc.called, r.called)])

mapParsePipeStep(r, rest, acc) ==
    IF r.error # Null
    THEN [pipes |-> acc.pipes, error |-> r.error,
          looked |-> Append(acc.looked, r.name),
          called |-> Append(acc.called, r.called)]
    ELSE mapParsePipe(rest,
                      [pipes |-> Append(acc.pipes, r.pipe[1]), error |-> Null,
                       looked |-> Append(acc.looked, r.name),
                       called |-> Append(acc.called, r.called)])

mapParsePipe(pieces, acc) ==
    IF pieces = <<>> THEN acc
    ELSE mapParsePipeStep(parsePipe(Head(pieces)), Tail(pieces), acc)

trimAll(pieces) == [i \in 1..Len(pieces) |-> trim(pieces[i])]

\* parsePipeline testing the check flag before the error.
parsePipelineReturnCheckFirst(m, check) ==
    IF check
    THEN [pipe |-> Some(NOOP), error |-> Null,
          looked |-> m.looked, called |-> m.called]
    ELSE IF m.error # Null
    THEN [pipe |-> Null, error |-> m.error,
          looked |-> m.looked, called |-> m.called]
    ELSE [pipe |-> Some([fn |-> "pipeline", desc |-> FALSE, pipes |-> m.pipes]),
          error |-> Null, looked |-> m.looked, called |-> m.called]

\* The return of parsePipeline once the map has ended as m.
parsePipelineReturn(m, check) ==
    IF m.error # Null
    THEN [pipe |-> Null, error |-> m.error,
          looked |-> m.looked, called |-> m.called]
    ELSE IF check \/ Len(m.pipes) = 0
    THEN [pipe |-> Some(NOOP), error |-> Null,
          looked |-> m.looked, called |-> m.called]
    ELSE [pipe |-> Some([fn |-> "pipeline", desc |-> FALSE, pipes |-> m.pipes]),
          error |-> Null, looked |-> m.looked, called |-> m.called]

parsePipeline(t, check) ==
    parsePipelineReturn(
        mapParsePipe(trimAll(splitPipe(t, <<>>)),
                     [pipes |-> <<>>, error |-> Null,
                      looked |-> <<>>, called |-> <<>>]),
        check)

(***************************************************************************)
(* SpecStage: a factory is called on argument tokens and the Pipe it       *)
(* returns is applied to a line sequence.                                  *)
(***************************************************************************)
Idle ==
    /\ text = <<>>
    /\ lines = <<>>
    /\ pipeName = ""
    /\ args = <<>>
    /\ built = Null
    /\ validated = Null
    /\ parsed = Null
    /\ out = Null
    /\ helpShown = 0
    /\ hasEditor = FALSE
    /\ edits = <<>>
    /\ errorsShown = <<>>
    /\ warning = Null

InitStage == pc = "start" /\ Idle

Build(name, a) ==
    /\ pc = "start"
    /\ pipeName' = name
    /\ args' = a
    /\ built' = Some(callFactory(name, a))
    /\ pc' = "built"
    /\ UNCHANGED <<text, lines, validated, parsed, out, helpShown, hasEditor,
                   edits, errorsShown, warning>>

BuildSort == \E a \in ArgSeqs : Build("sort", a)
BuildUniq == \E a \in ArgSeqs : Build("uniq", a)
BuildHelp == \E a \in ArgSeqs : Build("help", a)

RunStage ==
    /\ pc = "built"
    /\ built[1].error = Null
    /\ \E ls \in LineSeqs :
        \E r \in {CallPipe(built[1].pipe[1], ls, helpShown)} :
            /\ lines' = ls
            /\ out' = Some([threw |-> r.threw, lines |-> r.lines])
            /\ helpShown' = r.helps
    /\ pc' = "ran"
    /\ UNCHANGED <<text, pipeName, args, built, validated, parsed, hasEditor,
                   edits, errorsShown, warning>>

NextStage == BuildSort \/ BuildUniq \/ BuildHelp \/ RunStage

SpecStage == InitStage /\ [][NextStage]_vars

(***************************************************************************)
(* SpecParse: a pipeline text is parsed in check mode and in execution     *)
(* mode, and a returned Pipe is applied to a line sequence.                *)
(***************************************************************************)
DocLineUniverse == {LineA, LineB, Line10}
DocSeqs == SeqsUpTo(DocLineUniverse, MaxDocLines)

InitParse ==
    /\ pc = "start"
    /\ text \in Texts
    /\ lines = <<>>
    /\ pipeName = ""
    /\ args = <<>>
    /\ built = Null
    /\ validated = Null
    /\ parsed = Null
    /\ out = Null
    /\ helpShown = 0
    /\ hasEditor = FALSE
    /\ edits = <<>>
    /\ errorsShown = <<>>
    /\ warning = Null

CheckText ==
    /\ pc = "start"
    /\ validated' = Some(parsePipeline(text, TRUE))
    /\ pc' = "checked"
    /\ UNCHANGED <<text, lines, pipeName, args, built, parsed, out, helpShown,
                   hasEditor, edits, errorsShown, warning>>

ParseText ==
    /\ pc = "checked"
    /\ parsed' = Some(parsePipeline(text, FALSE))
    /\ pc' = "parsed"
    /\ UNCHANGED <<text, lines, pipeName, args, built, validated, out,
                   helpShown, hasEditor, edits, errorsShown, warning>>

Apply(p, ls) ==
    \E r \in {CallPipeline(p, ls, helpShown)} :
        /\ lines' = ls
        /\ out' = Some([threw |-> r.threw, lines |-> r.lines])
        /\ helpShown' = r.helps

\* pipe(lines) on the Pipe the execution-mode parse returned.
Execute ==
    /\ pc = "parsed"
    /\ parsed[1].error = Null
    /\ \E ls \in DocSeqs : Apply(parsed[1].pipe[1], ls)
    /\ pc' = "executed"
    /\ UNCHANGED <<text, pipeName, args, built, validated, parsed, hasEditor,
                   edits, errorsShown, warning>>

\* The same call on the Pipe the check-mode parse returned.
ExecuteChecked ==
    /\ pc = "parsed"
    /\ validated[1].error = Null
    /\ \E ls \in DocSeqs : Apply(validated[1].pipe[1], ls)
    /\ pc' = "executedChecked"
    /\ UNCHANGED <<text, pipeName, args, built, validated, parsed, hasEditor,
                   edits, errorsShown, warning>>

NextParse == CheckText \/ ParseText \/ Execute \/ ExecuteChecked

SpecParse == InitParse /\ [][NextParse]_vars

(***************************************************************************)
(* Spec: the textshell.executeCommand handler. The input box is shown, the *)
(* user edits its value (validateInput runs on each value), and the box is *)
(* accepted or dismissed; the rest of the handler then runs to its end.    *)
(***************************************************************************)
MaxTyped == 4

\* The selected lines of the documents the handler is run on.
EditorDocs ==
    {<<LineB, LineA, LineB>>, <<LineItem2, LineItem10, LineItem1>>,
     <<Line10, Line2, Line10>>, <<LineProto>>}

\* out.join('\n')
RECURSIVE join(_)
join(ls) ==
    IF ls = <<>> THEN <<>>
    ELSE IF Len(ls) = 1 THEN Head(ls)
    ELSE Head(ls) \o <<"\n">> \o join(Tail(ls))

\* getText(range).split('\n')
RECURSIVE splitLines(_, _)
splitLines(chars, cur) ==
    IF chars = <<>> THEN <<cur>>
    ELSE IF Head(chars) = "\n" THEN <<cur>> \o splitLines(Tail(chars), <<>>)
    ELSE splitLines(Tail(chars), Append(cur, Head(chars)))

\* getTextLines(editor): no lines without an editor, else the selected lines.
getTextLines(editor, doc) ==
    IF ~editor THEN <<>> ELSE splitLines(join(doc), <<>>)

\* validateInput: the message of the check-mode parse error, or null.
validationMessage(r) == IF r.error # Null THEN r.error ELSE Null

validateInput(inp) == validationMessage(parsePipeline(inp, TRUE))

\* What a run of the handler did: the execution-mode parse result (null when
\* no parse was made), the messages shown, the outcome of pipe(lines), the
\* replace edits issued, the selection's lines afterwards, the help documents
\* shown.
RunResult(p, shown, o, e, doc, h) ==
    [parsed |-> p, shown |-> shown, out |-> o, edits |-> e, doc |-> doc,
     helps |-> h]

\* From pipe(lines), whose outcome is o, to the end of the handler.
replaceSelection(r, o, editor, doc) ==
    IF o.threw \/ ~editor
    THEN RunResult(Some(r), <<>>, Some([threw |-> o.threw, lines |-> o.lines]),
                   <<>>, doc, o.helps)
    ELSE RunResult(Some(r), <<>>, Some([threw |-> o.threw, lines |-> o.lines]),
                   <<join(o.lines)>>, splitLines(join(o.lines), <<>>), o.helps)

\* From the execution-mode parse, whose result is r, to the end.
runParsed(r, editor, doc, h) ==
    IF r.error # Null
    THEN RunResult(Some(r), <<r.error[1]>>, Null, <<>>, doc, h)
    ELSE replaceSelection(
            r, CallPipeline(r.pipe[1], getTextLines(editor, doc), h), editor, doc)

\* The handler without its test of an empty value: only a dismissed box
\* returns early.
executeCommandParsingEmpty(cmdText, editor, doc, h) ==
    IF cmdText = Null
    THEN RunResult(Null, <<>>, Null, <<>>, doc, h)
    ELSE runParsed(parsePipeline(cmdText[1], FALSE), editor, doc, h)

\* The handler from the return of showInputBox to its end. cmdText is null
\* (box dismissed) or the accepted value; doc is the selection's lines and h
\* the help documents shown so far.
executeCommand(cmdText, editor, doc, h) ==
    IF cmdText = Null \/ cmdText[1] = <<>>
    THEN RunResult(Null, <<>>, Null, <<>>, doc, h)
    ELSE runParsed(parsePipeline(cmdText[1], FALSE), editor, doc, h)

Init ==
    /\ pc = "idle"
    /\ text = <<>>
    /\ hasEditor \in BOOLEAN
    /\ lines \in EditorDocs
    /\ pipeName = ""
    /\ args = <<>>
    /\ built = Null
    /\ validated = Null
    /\ parsed = Null
    /\ out = Null
    /\ helpShown = 0
    /\ edits = <<>>
    /\ errorsShown = <<>>
    /\ warning = Null

ShowInputBox ==
    /\ pc = "idle"
    /\ pc' = "inputBox"
    /\ UNCHANGED <<text, lines, pipeName, args, built, validated, parsed, out,
                   helpShown, hasEditor, edits, errorsShown, warning>>

\* The user edits the value, a lexeme at a time: one more is typed, or the
\* last one is deleted. validateInput runs on the new value.
TypeInput ==
    /\ pc = "inputBox"
    /\ \E inp \in {Append(text, x) : x \in Lexemes}
                  \cup {SubSeq(text, 1, Len(text) - 1)} :
        /\ inp # text
        /\ Len(inp) <= MaxTyped
        /\ WellFormed(inp)
        /\ text' = inp
        /\ validated' = Some(parsePipeline(inp, TRUE))
        /\ warning' = validateInput(inp)
    /\ UNCHANGED <<pc, lines, pipeName, args, built, parsed, out, helpShown,
                   hasEditor, edits, errorsShown>>

Finish(cmdText, to) ==
    /\ pc = "inputBox"
    /\ pc' = to
    /\ \E r \in {executeCommand(cmdText, hasEditor, lines, helpShown)} :
        /\ parsed' = r.parsed
        /\ errorsShown' = errorsShown \o r.shown
        /\ out' = r.out
        /\ edits' = edits \o r.edits
        /\ lines' = r.doc
        /\ helpShown' = r.helps
    /\ UNCHANGED <<text, pipeName, args, built, validated, hasEditor, warning>>

Accept == Finish(Some(text), "accepted")

Dismiss == Finish(Null, "dismissed")

Next == ShowInputBox \/ TypeInput \/ Accept \/ Dismiss

Spec == Init /\ [][Next]_vars

(***************************************************************************)
(* Properties of the stages (SpecStage)                                    *)
(***************************************************************************)
Count(x, s) == Cardinality({i \in 1..Len(s) : s[i] = x})

\* The distinct elements of s in the order of their first occurrence.
RECURSIVE FirstOccurrences(_, _)
FirstOccurrences(s, acc) ==
    IF s = <<>> THEN acc
    ELSE FirstOccurrences(Tail(s),
                          IF InSeq(Head(s), acc) THEN acc ELSE Append(acc, Head(s)))

\* C1: the stage uniq builds with no arguments returns exactly the distinct
\* lines of its input, each once, in the order of their first occurrence.
C1_UniqFirstOccurrenceOrder ==
    (pc = "ran" /\ pipeName = "uniq") =>
        /\ ~out[1].threw
        /\ out[1].lines = FirstOccurrences(lines, <<>>)

IsPermutation(s, t) ==
    /\ Len(s) = Len(t)
    /\ \A i \in 1..Len(s) : Count(s[i], s) = Count(s[i], t)

NonDecreasing(s) ==
    \A i \in 1..(Len(s) - 1) : collatorCompare(s[i], s[i + 1]) <= 0

NonIncreasing(s) ==
    \A i \in 1..(Len(s) - 1) : collatorCompare(s[i], s[i + 1]) >= 0

\* C4: for every accepted argument form, the stage sort builds returns a
\* permutation of its input, non-decreasing under the numeric-aware
\* comparator for no argument or "asc" and non-increasing for "-d" or "desc";
\* ["item2", "item10", "item1"] sorts ascending to ["item1", "item2", "item10"].
C4_SortIsOrderedPermutation ==
    (pc = "ran" /\ pipeName = "sort") =>
        /\ ~out[1].threw
        /\ IsPermutation(lines, out[1].lines)
        /\ (args \in {<<>>, <<"asc">>} => NonDecreasing(out[1].lines))
        /\ (args \in {<<"-d">>, <<"desc">>} => NonIncreasing(out[1].lines))
        /\ (args \in {<<>>, <<"asc">>}
            /\ lines = <<LineItem2, LineItem10, LineItem1>>
              => out[1].lines = <<LineItem1, LineItem2, LineItem10>>)

C4_Witness ==
    /\ pc = "ran"
    /\ pipeName = "sort"
    /\ args = <<"desc">>
    /\ lines = <<LineItem2, LineItem10, LineItem1>>
    /\ out[1].lines = <<LineItem10, LineItem2, LineItem1>>

(***************************************************************************)
(* Properties of the parser and the executor (SpecParse)                   *)
(***************************************************************************)
RegistryNames == {"sort", "uniq", "help"}

\* The stages of a text as the specification describes them: the trimmed
\* pieces between pipe characters, each a command name and its arguments.
StagesOf(t) == trimAll(splitPipe(t, <<>>))
NameOf(piece) == Head(splitWhitespace(piece))
ArgsOf(piece) == Tail(splitWhitespace(piece))

\* The argument forms the registry's table accepts.
Accepted(name, a) ==
    \/ name = "sort" /\ a \in {<<>>, <<"asc">>, <<"-d">>, <<"desc">>}
    \/ name = "uniq" /\ a = <<>>
    \/ name = "help"

BuildsPerTable(piece) ==
    NameOf(piece) \in RegistryNames /\ Accepted(NameOf(piece), ArgsOf(piece))

Parsed == pc \in {"parsed", "executed", "executedChecked"}

\* C2: when a stage's first token is not exactly "sort", "uniq" or "help"
\* (and no stage to its left fails), parsePipeline returns the unknown-command
\* error carrying that name, and no pipeline.
C2_UnknownCommandRejected ==
    Parsed =>
        \A k \in 1..Len(StagesOf(text)) :
            (/\ NameOf(StagesOf(text)[k]) \notin RegistryNames
             /\ \A j \in 1..(k - 1) : BuildsPerTable(StagesOf(text)[j]))
            => /\ parsed[1].error =
                    Some(UnknownCommand(NameOf(StagesOf(text)[k])))
               /\ parsed[1].pipe = Null

Blank(t) == \A i \in 1..Len(t) : t[i] = " "

\* C3: for the empty text and every whitespace-only text, parsePipeline, with
\* or without the check flag, yields zero stages and returns the identity
\* pipeline and no error; executing it returns the lines unchanged.
C3_BlankTextIsIdentity ==
    (Parsed /\ Blank(text)) =>
        /\ validated[1].error = Null
        /\ validated[1].pipe = Some(NOOP)
        /\ parsed[1].error = Null
        /\ parsed[1].pipe = Some(NOOP)
        /\ parsed[1].looked = <<>>
        /\ (pc = "executed" => out[1] = [threw |-> FALSE, lines |-> lines])

\* s_k(...(s_1(ls))...), s_i being the Pipe parsePipe builds from the i-th
\* stage of the text; a stage that throws ends the application.
RECURSIVE Nested(_, _, _)
Nested(stages, k, ls) ==
    IF k = 0 THEN [threw |-> FALSE, lines |-> ls, helps |-> 0]
    ELSE LET inner == Nested(stages, k - 1, ls)
         IN  IF inner.threw THEN inner
             ELSE CallPipe(parsePipe(stages[k]).pipe[1], inner.lines, inner.helps)

\* C5: executing the pipeline a text parses into, without the check flag,
\* applies the text's stages once each, left to right, each to the output of
\* the one before; "uniq | sort" on ["b", "a", "b"] yields ["a", "b"].
C5_ExecutionIsLeftToRightComposition ==
    (pc = "executed") =>
        /\ Len(StagesOf(text)) >= 1
        /\ \E n \in {Nested(StagesOf(text), Len(StagesOf(text)), lines)} :
            /\ out[1].threw = n.threw
            /\ out[1].lines = n.lines
            /\ helpShown = n.helps
        /\ (text = <<"uniq", " ", "|", " ", "sort">>
            /\ lines = <<LineB, LineA, LineB>>
              => out[1] = [threw |-> FALSE, lines |-> <<LineA, LineB>>])

C5_Witness ==
    /\ pc = "executed"
    /\ text = <<"uniq", " ", "|", " ", "sort">>
    /\ lines = <<LineB, LineA, LineB>>
    /\ out[1].lines = <<LineA, LineB>>

\* C6: check mode returns an error exactly when execution mode does, and the
\* same one; without an error it returns the identity pipeline, whose
\* application returns its input and runs no parsed stage (no help document
\* is shown).
C6_CheckModeValidatesWithoutExecuting ==
    Parsed =>
        /\ validated[1].error = parsed[1].error
        /\ (validated[1].error = Null => validated[1].pipe = Some(NOOP))
        /\ (validated[1].error # Null => validated[1].pipe = Null)
        /\ (pc = "executedChecked" =>
                /\ out[1] = [threw |-> FALSE, lines |-> lines]
                /\ helpShown = 0)

C6_Witness ==
    /\ pc = "executedChecked"
    /\ text = <<"help", "|", "sort", " ", "desc">>
    /\ lines = <<LineA, LineB>>
    /\ out[1].lines = <<LineA, LineB>>
    /\ helpShown = 0

\* The number of stages parsePipeline reached: one per parsePipe call.
Reached == Len(parsed[1].looked)

\* Stage k was built: it was reached and did not fail.
BuiltOk(k) == k < Reached \/ (k = Reached /\ parsed[1].error = Null)

\* C7: a sort stage builds if and only if its arguments are [], ["asc"],
\* ["-d"] or ["desc"]; a uniq stage if and only if it has none; a help stage
\* always; any other arguments of sort or uniq make parsePipeline return the
\* invalid-arguments error and no pipeline.
C7_ArgumentValidationIsExact ==
    Parsed =>
        \A k \in 1..Reached :
            LET name == NameOf(StagesOf(text)[k])
                a == ArgsOf(StagesOf(text)[k])
            IN  name \in RegistryNames =>
                    /\ BuiltOk(k) <=> Accepted(name, a)
                    /\ ~Accepted(name, a) =>
                        /\ parsed[1].error = Some(InvalidArguments)
                        /\ parsed[1].pipe = Null
                        /\ validated[1].error = Some(InvalidArguments)
                        /\ validated[1].pipe = Null

C7_Witness ==
    /\ pc = "parsed"
    /\ text = <<"sort", " ", "asc", " ", "desc">>
    /\ parsed[1].error = Some(InvalidArguments)
    /\ parsed[1].pipe = Null

Fails(piece) == parsePipe(piece).error # Null

\* C8: when a stage fails to parse, parsePipeline returns the error of the
\* leftmost failing stage and no pipeline, and makes no lookup or factory
\* call for a stage to its right; every result has exactly one of pipeline
\* and error non-null.
C8_FirstFailureWins ==
    Parsed =>
        /\ (parsed[1].pipe = Null) # (parsed[1].error = Null)
        /\ (validated[1].pipe = Null) # (validated[1].error = Null)
        /\ \A k \in 1..Len(StagesOf(text)) :
            (Fails(StagesOf(text)[k])
             /\ \A j \in 1..(k - 1) : ~Fails(StagesOf(text)[j]))
            => /\ parsed[1].error = parsePipe(StagesOf(text)[k]).error
               /\ parsed[1].pipe = Null
               /\ parsed[1].looked =
                    [i \in 1..k |-> NameOf(StagesOf(text)[i])]
               /\ Len(parsed[1].called) = k
        /\ ((\A k \in 1..Len(StagesOf(text)) : ~Fails(StagesOf(text)[k]))
            => parsed[1].error = Null)

C8_Witness ==
    /\ pc = "parsed"
    /\ text = <<"uniq", "|", "frobnicate", "|", "Sort">>
    /\ parsed[1].error = Some(UnknownCommand("frobnicate"))
    /\ parsed[1].pipe = Null
    /\ parsed[1].looked = <<"uniq", "frobnicate">>
    /\ parsed[1].called = <<TRUE, FALSE>>

\* C9: when parsePipeline without the check flag returns a pipeline and no
\* error, every stage it holds is a transform a registry factory produced,
\* and executing it on any line sequence returns without a run-time failure.
C9_ParsedPipelineRunsToCompletion ==
    (pc = "executed") =>
        /\ \A i \in 1..Len(parsed[1].pipe[1].pipes) :
            parsed[1].pipe[1].pipes[i].fn \in RegistryNames
        /\ ~out[1].threw

(***************************************************************************)
(* Properties of the command handler (Spec)                                *)
(***************************************************************************)
\* C10: a run of the handler replaces the document text at most once, and
\* only after the execution-mode parse of the entered text returned no error;
\* on a parse error it shows the message and issues no edit; when the box is
\* dismissed or empty it parses nothing, shows nothing and edits nothing;
\* validation while typing never edits.
C10_EditOnlyAfterSuccessfulParse ==
    /\ Len(edits) <= 1
    /\ edits # <<>> =>
        /\ pc = "accepted"
        /\ parsed = Some(parsePipeline(text, FALSE))
        /\ parsed[1].error = Null
    /\ (pc = "accepted" /\ text # <<>>) =>
        /\ parsed = Some(parsePipeline(text, FALSE))
        /\ parsed[1].error # Null =>
            /\ errorsShown = <<parsed[1].error[1]>>
            /\ edits = <<>>
        /\ parsed[1].error = Null => errorsShown = <<>>
    /\ (pc = "dismissed" \/ (pc = "accepted" /\ text = <<>>)) =>
        /\ parsed = Null
        /\ errorsShown = <<>>
        /\ edits = <<>>
    /\ pc \in {"idle", "inputBox"} =>
        /\ parsed = Null
        /\ errorsShown = <<>>
        /\ edits = <<>>
        /\ helpShown = 0
        /\ lines \in EditorDocs

C10_Witness ==
    /\ pc = "accepted"
    /\ text = <<"uniq", "|", "sort">>
    /\ warning = Null
    /\ hasEditor
    /\ edits = <<<<"a", "\n", "b">>>>
    /\ lines = <<LineA, LineB>>

====
